---- MODULE Spec2Model ----
(***************************************************************************)
(* get_github_repo_languages (fetching-language-info.py): paginated        *)
(* listing of an organization's repositories, a first pass over the        *)
(* repositories that collects the language vocabulary, the CSV header,     *)
(* and a second pass that fetches the languages again and writes one row   *)
(* per repository.  One action is one iteration of a loop of the function. *)
(* Durations are in milliseconds, timestamps in seconds, percentages in    *)
(* hundredths of a percent (80.00 is 8000).                                *)
(***************************************************************************)
EXTENDS Integers, Sequences, FiniteSets, TLC

VARIABLES
    pc,              \* position in the function
    batch_size,      \* argument batch_size
    page,            \* listing: next page number
    all_repos,       \* listing: the collected repository summaries
    request,         \* the transport call of the last iteration
    outcome,         \* what that call returned or raised
    slept,           \* the sleeps of the last iteration, in order
    retries,         \* times the current listing request has been tried again
    all_languages,   \* the set of language names built by pass 1
    sorted_languages,\* all_languages after sorted()
    headers_csv,     \* the header row
    i,               \* start index of the current batch (0-based)
    j,               \* repositories of the current batch already handled
    opened,          \* the output file has been opened
    closed,          \* the with-block has been left
    csvfile,         \* the rows handed to the csv writer, header first
    flushed,         \* how many of them csvfile.flush() has pushed out
    pass1,           \* the pass-1 fetches so far: repository index, success, keys
    pass2            \* the pass-2 fetches so far: repository index, success, response

vars == <<pc, batch_size, page, all_repos, request, outcome, slept,
          retries, all_languages, sorted_languages, headers_csv, i, j, opened,
          closed, csvfile, flushed, pass1, pass2>>

----------------------------------------------------------------------------
\* Bounds of the model: the repositories of the organization, the batch
\* sizes tried (batch_size >= 1), and how often one listing request is
\* answered with an error that the loop retries.
MaxRepos == 2
MaxBatch == 2
MaxRetries == 1

\* Constants of the program.
per_page == 30
ListingMinSleep == 60
QuotaMinSleep == 10
PageDelay == 1000
LangDelay == 500
ListingMemorySleep == 60000
LangMemorySleep == 30000
FixedColumns == 9

Max(a, b) == IF a >= b THEN a ELSE b

----------------------------------------------------------------------------
\* The language names the platform reports, and their characters' code
\* points: sorted() orders str values by code point, position by position.
Langs == {"C", "Go", "HTML"}

CodePoints(l) ==
    CASE l = "C"    -> <<67>>
      [] l = "Go"   -> <<71, 111>>
      [] l = "HTML" -> <<72, 84, 77, 76>>

RECURSIVE SeqLess(_, _)
SeqLess(a, b) ==
    IF a = <<>> THEN b # <<>>
    ELSE IF b = <<>> THEN FALSE
    ELSE IF Head(a) # Head(b) THEN Head(a) < Head(b)
    ELSE SeqLess(Tail(a), Tail(b))

StrLess(x, y) == SeqLess(CodePoints(x), CodePoints(y))

\* A mutant of sorted: descending order.
RECURSIVE SortedDescending(_)
SortedDescending(S) ==
    IF S = {} THEN <<>>
    ELSE LET m == CHOOSE x \in S : \A y \in S \ {x} : StrLess(y, x)
         IN  <<m>> \o SortedDescending(S \ {m})

\* sorted(all_languages)
RECURSIVE Sorted(_)
Sorted(S) ==
    IF S = {} THEN <<>>
    ELSE LET m == CHOOSE x \in S : \A y \in S \ {x} : StrLess(x, y)
         IN  <<m>> \o Sorted(S \ {m})

----------------------------------------------------------------------------
\* A language response is the JSON object of the languages endpoint, kept as
\* the sequence of its (name, byte count) members in the order received.
Lang(n, b) == [lang |-> n, bytes |-> b]

LangResponses ==
    { <<>>,
      <<Lang("Go", 800), Lang("HTML", 200)>>,
      <<Lang("Go", 500)>>,
      <<Lang("HTML", 200), Lang("Go", 200)>>,
      <<Lang("HTML", 0), Lang("Go", 0)>>,
      <<Lang("C", 1), Lang("HTML", 1), Lang("Go", 1)>> }

\* languages.keys()
Keys(languages) == {languages[k].lang : k \in 1..Len(languages)}

\* languages[lang], for a key of the response
BytesOf(languages, lang) ==
    LET k == CHOOSE n \in 1..Len(languages) : languages[n].lang = lang
    IN  languages[k].bytes

\* A mutant of the total: the largest byte count, not the sum.
RECURSIVE MaxValue(_)
MaxValue(languages) ==
    IF languages = <<>> THEN 0
    ELSE LET rest == MaxValue(Tail(languages))
         IN  IF Head(languages).bytes >= rest THEN Head(languages).bytes ELSE rest

\* sum(languages.values())
RECURSIVE SumValues(_)
SumValues(languages) ==
    IF languages = <<>> THEN 0
    ELSE Head(languages).bytes + SumValues(Tail(languages))

\* round(x, 2) of x = num / den * 100, in hundredths: the nearest hundredth.
\* (An exact half goes to the even hundredth here; which way the float goes
\* there is not decided by this rule, and no byte count of LangResponses
\* produces one.)
Round2(num, den) ==
    LET q == (num * 10000) \div den
        r == (num * 10000) % den
    IN  IF 2 * r > den THEN q + 1
        ELSE IF 2 * r < den THEN q
        ELSE IF q % 2 = 0 THEN q ELSE q + 1

\* A mutant of the percentage: the fraction, not multiplied by 100.
PercentageAsFraction(bytes_count, total_bytes) ==
    IF total_bytes > 0 THEN (bytes_count * 100) \div total_bytes ELSE 0

\* round(bytes_count / total_bytes * 100, 2) if total_bytes > 0 else 0
Percentage(bytes_count, total_bytes) ==
    IF total_bytes > 0 THEN Round2(bytes_count, total_bytes) ELSE 0

\* languages_with_percentages
LanguagesWithPercentages(languages) ==
    [lang \in Keys(languages) |->
        Percentage(BytesOf(languages, lang), SumValues(languages))]

\* A mutant of max: the last member among those with the largest byte count.
RECURSIVE MaxItemLast(_, _)
MaxItemLast(best, rest) ==
    IF rest = <<>> THEN best
    ELSE IF Head(rest).bytes >= best.bytes THEN MaxItemLast(Head(rest), Tail(rest))
    ELSE MaxItemLast(best, Tail(rest))

\* max(languages.items(), key=lambda x: x[1]): the first member among those
\* with the largest byte count.
RECURSIVE MaxItem(_, _)
MaxItem(best, rest) ==
    IF rest = <<>> THEN best
    ELSE IF Head(rest).bytes > best.bytes THEN MaxItem(Head(rest), Tail(rest))
    ELSE MaxItem(best, Tail(rest))

\* A mutant of the primary language: "None" when the byte counts sum to 0.
PrimaryLanguageOfBytes(languages) ==
    IF languages # <<>> /\ SumValues(languages) > 0
    THEN MaxItem(Head(languages), Tail(languages)).lang
    ELSE "None"

PrimaryLanguage(languages) ==
    IF languages # <<>> THEN MaxItem(Head(languages), Tail(languages)).lang
    ELSE "None"

----------------------------------------------------------------------------
\* The platform's side of the listing endpoint.  The n-th repository of the
\* organization, as the raw JSON record of a listing page.
RepoNames == <<"A", "B", "C", "D">>

Null == "null"

RawRepo(n) ==
    [name             |-> RepoNames[n],
     languages_url    |-> <<"languages", RepoNames[n]>>,
     html_url         |-> <<"html", RepoNames[n]>>,
     description      |-> IF n % 2 = 0 THEN Null ELSE "text",
     created_at       |-> "created",
     updated_at       |-> "updated",
     stargazers_count |-> n,
     forks_count      |-> 0,
     private          |-> (n % 2 = 0)]

\* The dict appended to all_repos for one record of a page.
Summary(repo) ==
    [name             |-> repo.name,
     languages_url    |-> repo.languages_url,
     html_url         |-> repo.html_url,
     description      |-> IF repo.description = Null THEN "" ELSE repo.description,
     created_at       |-> repo.created_at,
     updated_at       |-> repo.updated_at,
     stargazers_count |-> repo.stargazers_count,
     forks_count      |-> repo.forks_count,
     private          |-> repo.private]

\* A response header is absent (<<>>) or carries one value.
Absent == <<>>
Get(header, default) == IF header = Absent THEN default ELSE header[1]

ClockValues == {1000}
RemainingValues == {Absent, <<"0">>, <<"5">>}
ResetValues == {Absent, <<900>>, <<1030>>, <<1100>>}

\* The pages the platform may answer with when `have` repositories have been
\* handed out: the next 1..per_page repositories, as long as any are left.
NextPages(have) ==
    {[k \in 1..n |-> RawRepo(have + k)] :
        n \in 1..(IF MaxRepos - have < per_page THEN MaxRepos - have ELSE per_page)}

ListRequest == [url |-> "repos", page |-> page, per_page |-> per_page, timeout |-> 30]

LangRequest(repo) == [url |-> repo.languages_url, timeout |-> 30]

----------------------------------------------------------------------------
Init ==
    /\ pc = "list"
    /\ batch_size \in 1..MaxBatch
    /\ page = 1
    /\ all_repos = <<>>
    /\ request = [url |-> "none"]
    /\ outcome = [kind |-> "none"]
    /\ slept = <<>>
    /\ retries = 0
    /\ all_languages = {}
    /\ sorted_languages = <<>>
    /\ headers_csv = <<>>
    /\ i = 0
    /\ j = 0
    /\ opened = FALSE
    /\ closed = FALSE
    /\ csvfile = <<>>
    /\ flushed = 0
    /\ pass1 = <<>>
    /\ pass2 = <<>>

AfterListing == <<all_languages, sorted_languages, headers_csv, i, j, opened,
                  closed, csvfile, flushed, pass1, pass2>>

\* The listing request of one iteration of the while loop.
Issue(req) == request' = req

\* A mutant of the 404 branch: the loop is left, the function goes on.
ListNotFoundBreaks ==
    /\ pc = "list"
    /\ Issue(ListRequest)
    /\ \E rem \in RemainingValues, reset \in ResetValues :
          outcome' = [kind |-> "http_error", status |-> 404,
                      remaining |-> rem, reset |-> reset]
    /\ slept' = <<>>
    /\ pc' = "pass1"
    /\ UNCHANGED <<batch_size, page, all_repos, retries, AfterListing>>

\* 404: the organization is not found, the function returns.
ListNotFound ==
    /\ pc = "list"
    /\ Issue(ListRequest)
    /\ \E rem \in RemainingValues, reset \in ResetValues :
          outcome' = [kind |-> "http_error", status |-> 404,
                      remaining |-> rem, reset |-> reset]
    /\ slept' = <<>>
    /\ pc' = "aborted"
    /\ UNCHANGED <<batch_size, page, all_repos, retries, AfterListing>>

\* A mutant of the 403 sleep: no floor of 60 seconds.
ListingSleepNoFloor(reset_time, current_time) == reset_time - current_time + 1

\* sleep_time of the 403 branch, in seconds.
ListingSleepTime(reset_time, current_time) ==
    Max(reset_time - current_time + 1, ListingMinSleep)

\* A mutant of the 403 branch: the page is given up and the next one asked.
ListRateLimitedSkipsPage ==
    /\ pc = "list"
    /\ retries < MaxRetries
    /\ Issue(ListRequest)
    /\ \E rem \in RemainingValues, reset \in ResetValues, now \in ClockValues :
          /\ outcome' = [kind |-> "http_error", status |-> 403,
                         remaining |-> rem, reset |-> reset, now |-> now]
          /\ slept' = <<1000 * ListingSleepTime(Get(reset, 0), now)>>
    /\ retries' = retries + 1
    /\ page' = page + 1
    /\ UNCHANGED <<pc, batch_size, all_repos, AfterListing>>

\* 403: sleep until the reset time and go round the loop again.
ListRateLimited ==
    /\ pc = "list"
    /\ retries < MaxRetries
    /\ Issue(ListRequest)
    /\ \E rem \in RemainingValues, reset \in ResetValues, now \in ClockValues :
          /\ outcome' = [kind |-> "http_error", status |-> 403,
                         remaining |-> rem, reset |-> reset, now |-> now]
          /\ slept' = <<1000 * ListingSleepTime(Get(reset, 0), now)>>
    /\ retries' = retries + 1
    /\ UNCHANGED <<pc, batch_size, page, all_repos, AfterListing>>

\* An error whose message holds "Cannot allocate memory": sleep and go round
\* the loop again.
ListMemoryError ==
    /\ pc = "list"
    /\ retries < MaxRetries
    /\ Issue(ListRequest)
    /\ outcome' = [kind |-> "error", memory |-> TRUE]
    /\ slept' = <<ListingMemorySleep>>
    /\ retries' = retries + 1
    /\ UNCHANGED <<pc, batch_size, page, all_repos, AfterListing>>

\* Any other RequestException is raised again, caught by the outer except,
\* and the function returns.
ListOtherError ==
    /\ pc = "list"
    /\ Issue(ListRequest)
    /\ \/ outcome' = [kind |-> "error", memory |-> FALSE]
       \/ \E rem \in RemainingValues, reset \in ResetValues :
             outcome' = [kind |-> "http_error", status |-> 500,
                         remaining |-> rem, reset |-> reset]
    /\ slept' = <<>>
    /\ pc' = "aborted"
    /\ UNCHANGED <<batch_size, page, all_repos, retries, AfterListing>>

\* An empty page ends the listing.
ListEmptyPage ==
    /\ pc = "list"
    /\ Issue(ListRequest)
    /\ \E rem \in RemainingValues, reset \in ResetValues :
          outcome' = [kind |-> "ok", body |-> <<>>,
                      remaining |-> rem, reset |-> reset]
    /\ slept' = <<>>
    /\ pc' = "pass1"
    /\ retries' = 0
    /\ UNCHANGED <<batch_size, page, all_repos, AfterListing>>

\* A mutant of the sleep after a page: no floor of 10 seconds.
QuotaSleepNoFloor(reset_time, current_time) == reset_time - current_time + 1

\* sleep_time after a page whose X-RateLimit-Remaining is '0', in seconds.
QuotaSleepTime(reset_time, current_time) ==
    Max(reset_time - current_time + 1, QuotaMinSleep)

\* The records of a page, projected, in the page's order.
Collected(repos, repos_page) ==
    repos \o [k \in 1..Len(repos_page) |-> Summary(repos_page[k])]

\* A non-empty page: collect it, advance the page, wait.
ListPage ==
    /\ pc = "list"
    /\ Issue(ListRequest)
    /\ \E repos_page \in NextPages(Len(all_repos)),
          rem \in RemainingValues, reset \in ResetValues, now \in ClockValues :
          /\ outcome' = [kind |-> "ok", body |-> repos_page,
                         remaining |-> rem, reset |-> reset, now |-> now]
          /\ all_repos' = Collected(all_repos, repos_page)
          /\ slept' = IF rem = <<"0">>
                      THEN <<1000 * QuotaSleepTime(Get(reset, 0), now)>>
                      ELSE <<PageDelay>>
    /\ page' = page + 1
    /\ retries' = 0
    /\ UNCHANGED <<pc, batch_size, AfterListing>>

----------------------------------------------------------------------------
\* The platform's side of the languages endpoint: what a fetch may raise.
LangErrors ==
    { [kind |-> "http_error", status |-> 403, remaining |-> <<"0">>, reset |-> <<1100>>],
      [kind |-> "error", memory |-> TRUE],
      [kind |-> "error", memory |-> FALSE] }

Ok(languages) == [kind |-> "ok", body |-> languages]

total_repos == Len(all_repos)

\* A mutant of the batch: the slice stops one short.
BatchLenShort ==
    IF total_repos - i < batch_size - 1 THEN total_repos - i ELSE batch_size - 1

\* len(all_repos[i:i+batch_size])
BatchLen == IF total_repos - i < batch_size THEN total_repos - i ELSE batch_size

\* The repository the inner loop is at, and its index in all_repos (1-based).
Index == i + j + 1
Repo == all_repos[Index]

\* A mutant of the except branch: no longer sleep for a memory error.
ErrorSleepsNone(err) == <<>>

\* The except branch of a language fetch: a longer sleep for a memory error,
\* then on to the next repository.
ErrorSleeps(err) ==
    IF err.kind = "error" /\ err.memory THEN <<LangMemorySleep>> ELSE <<>>

\* A mutant of the update: the set is assigned, not added to.
Assigned(languages_set, languages) == Keys(languages)

\* all_languages.update(languages.keys())
Updated(languages_set, languages) == languages_set \cup Keys(languages)

\* Pass 1, one repository, the fetch succeeds: its keys join all_languages.
Pass1Fetch ==
    /\ pc = "pass1"
    /\ i < total_repos
    /\ j < BatchLen
    /\ request' = LangRequest(Repo)
    /\ \E languages \in LangResponses :
          /\ outcome' = Ok(languages)
          /\ all_languages' = Updated(all_languages, languages)
          /\ pass1' = Append(pass1, [repo |-> Index, ok |-> TRUE, keys |-> Keys(languages)])
    /\ slept' = <<LangDelay>>
    /\ j' = j + 1
    /\ UNCHANGED <<pc, batch_size, page, all_repos, retries,
                   sorted_languages, headers_csv, i, opened, closed, csvfile,
                   flushed, pass2>>

\* A mutant of the except branch of pass 1: the same repository is fetched
\* again.
Pass1ErrorRetries ==
    /\ pc = "pass1"
    /\ i < total_repos
    /\ j < BatchLen
    /\ request' = LangRequest(Repo)
    /\ \E err \in LangErrors :
          /\ outcome' = err
          /\ pass1' = Append(pass1, [repo |-> Index, ok |-> FALSE, keys |-> {}])
          /\ slept' = ErrorSleeps(err)
    /\ UNCHANGED <<pc, batch_size, page, all_repos, retries,
                   all_languages, sorted_languages, headers_csv, i, j, opened,
                   closed, csvfile, flushed, pass2>>

\* Pass 1, one repository, the fetch raises: a warning, and the next one.
Pass1Error ==
    /\ pc = "pass1"
    /\ i < total_repos
    /\ j < BatchLen
    /\ request' = LangRequest(Repo)
    /\ \E err \in LangErrors :
          /\ outcome' = err
          /\ pass1' = Append(pass1, [repo |-> Index, ok |-> FALSE, keys |-> {}])
          /\ slept' = ErrorSleeps(err)
    /\ j' = j + 1
    /\ UNCHANGED <<pc, batch_size, page, all_repos, retries,
                   all_languages, sorted_languages, headers_csv, i, opened,
                   closed, csvfile, flushed, pass2>>

\* Pass 1, the end of a batch.
Pass1EndBatch ==
    /\ pc = "pass1"
    /\ i < total_repos
    /\ j = BatchLen
    /\ i' = i + batch_size
    /\ j' = 0
    /\ UNCHANGED <<pc, batch_size, page, all_repos, request, outcome, slept,
                   retries, all_languages, sorted_languages,
                   headers_csv, opened, closed, csvfile, flushed, pass1, pass2>>

\* A mutant of the header: the language columns carry the bare name.
HeadersCsvBare(langs) ==
    <<"Repository", "URL", "Description", "Primary Language",
      "Created At", "Updated At", "Stars", "Forks", "Private">>
    \o langs

\* headers_csv: the fixed columns, then one column per language.
HeadersCsv(langs) ==
    <<"Repository", "URL", "Description", "Primary Language",
      "Created At", "Updated At", "Stars", "Forks", "Private">>
    \o [k \in 1..Len(langs) |-> langs[k] \o " (%)"]

\* After pass 1: sort the languages, build the header, open the file and
\* write the header.
WriteHeader ==
    /\ pc = "pass1"
    /\ i >= total_repos
    /\ sorted_languages' = Sorted(all_languages)
    /\ headers_csv' = HeadersCsv(sorted_languages')
    /\ opened' = TRUE
    /\ csvfile' = <<headers_csv'>>
    /\ pc' = "pass2"
    /\ i' = 0
    /\ j' = 0
    /\ UNCHANGED <<batch_size, page, all_repos, request, outcome, slept,
                   retries, all_languages, closed, flushed, pass1,
                   pass2>>

\* percentage of one language column: languages_with_percentages.get(lang, 0)
Cell(languages, lang) ==
    IF lang \in Keys(languages) THEN LanguagesWithPercentages(languages)[lang]
    ELSE 0

\* A mutant of the row: a column for every language of the response.
RowOfResponse(repo, languages, langs) ==
    <<repo.name, repo.html_url, repo.description, PrimaryLanguage(languages),
      repo.created_at, repo.updated_at, repo.stargazers_count,
      repo.forks_count, IF repo.private THEN "Yes" ELSE "No">>
    \o [k \in 1..Len(languages) |-> Cell(languages, languages[k].lang)]

\* row: the nine fields of the repository, then one percentage per language
\* of the sorted list.
Row(repo, languages, langs) ==
    <<repo.name, repo.html_url, repo.description, PrimaryLanguage(languages),
      repo.created_at, repo.updated_at, repo.stargazers_count,
      repo.forks_count, IF repo.private THEN "Yes" ELSE "No">>
    \o [k \in 1..Len(langs) |-> Cell(languages, langs[k])]

\* A mutant of pass 2: a language the response brings is added to the list
\* of languages.
Pass2FetchGrows ==
    /\ pc = "pass2"
    /\ i < total_repos
    /\ j < BatchLen
    /\ request' = LangRequest(Repo)
    /\ \E languages \in LangResponses :
          /\ outcome' = Ok(languages)
          /\ all_languages' = Updated(all_languages, languages)
          /\ sorted_languages' = Sorted(all_languages')
          /\ csvfile' = Append(csvfile, Row(Repo, languages, sorted_languages'))
          /\ pass2' = Append(pass2, [repo |-> Index, ok |-> TRUE, languages |-> languages])
    /\ slept' = <<LangDelay>>
    /\ j' = j + 1
    /\ UNCHANGED <<pc, batch_size, page, all_repos, retries,
                   headers_csv, i, opened, closed, flushed, pass1>>

\* Pass 2, one repository, the fetch succeeds: its row is written.
Pass2Fetch ==
    /\ pc = "pass2"
    /\ i < total_repos
    /\ j < BatchLen
    /\ request' = LangRequest(Repo)
    /\ \E languages \in LangResponses :
          /\ outcome' = Ok(languages)
          /\ csvfile' = Append(csvfile, Row(Repo, languages, sorted_languages))
          /\ pass2' = Append(pass2, [repo |-> Index, ok |-> TRUE, languages |-> languages])
    /\ slept' = <<LangDelay>>
    /\ j' = j + 1
    /\ UNCHANGED <<pc, batch_size, page, all_repos, retries,
                   all_languages, sorted_languages, headers_csv, i, opened,
                   closed, flushed, pass1>>

\* A mutant of the except branch of pass 2: a row of zeros is written.
Pass2ErrorZeroRow ==
    /\ pc = "pass2"
    /\ i < total_repos
    /\ j < BatchLen
    /\ request' = LangRequest(Repo)
    /\ \E err \in LangErrors :
          /\ outcome' = err
          /\ pass2' = Append(pass2, [repo |-> Index, ok |-> FALSE, languages |-> <<>>])
          /\ slept' = ErrorSleeps(err)
    /\ csvfile' = Append(csvfile, Row(Repo, <<>>, sorted_languages))
    /\ j' = j + 1
    /\ UNCHANGED <<pc, batch_size, page, all_repos, retries,
                   all_languages, sorted_languages, headers_csv, i, opened,
                   closed, flushed, pass1>>

\* Pass 2, one repository, the fetch raises: a warning, and the next one.
Pass2Error ==
    /\ pc = "pass2"
    /\ i < total_repos
    /\ j < BatchLen
    /\ request' = LangRequest(Repo)
    /\ \E err \in LangErrors :
          /\ outcome' = err
          /\ pass2' = Append(pass2, [repo |-> Index, ok |-> FALSE, languages |-> <<>>])
          /\ slept' = ErrorSleeps(err)
    /\ j' = j + 1
    /\ UNCHANGED <<pc, batch_size, page, all_repos, retries,
                   all_languages, sorted_languages, headers_csv, i, opened,
                   closed, csvfile, flushed, pass1>>

\* A mutant of the end of a batch: the file is not flushed.
Pass2EndBatchNoFlush ==
    /\ pc = "pass2"
    /\ i < total_repos
    /\ j = BatchLen
    /\ i' = i + batch_size
    /\ j' = 0
    /\ UNCHANGED <<pc, batch_size, page, all_repos, request, outcome, slept,
                   retries, all_languages, sorted_languages, headers_csv,
                   opened, closed, csvfile, flushed, pass1, pass2>>

\* Pass 2, the end of a batch: the file is flushed.
Pass2EndBatch ==
    /\ pc = "pass2"
    /\ i < total_repos
    /\ j = BatchLen
    /\ flushed' = Len(csvfile)
    /\ i' = i + batch_size
    /\ j' = 0
    /\ UNCHANGED <<pc, batch_size, page, all_repos, request, outcome, slept,
                   retries, all_languages, sorted_languages,
                   headers_csv, opened, closed, csvfile, pass1, pass2>>

\* After pass 2: the with-block is left, which closes the file.
Finish ==
    /\ pc = "pass2"
    /\ i >= total_repos
    /\ closed' = TRUE
    /\ flushed' = Len(csvfile)
    /\ pc' = "done"
    /\ UNCHANGED <<batch_size, page, all_repos, request, outcome, slept,
                   retries, all_languages, sorted_languages,
                   headers_csv, i, j, opened, csvfile, pass1, pass2>>

Next ==
    \/ ListNotFound
    \/ ListRateLimited
    \/ ListMemoryError
    \/ ListOtherError
    \/ ListEmptyPage
    \/ ListPage
    \/ Pass1Fetch
    \/ Pass1Error
    \/ Pass1EndBatch
    \/ WriteHeader
    \/ Pass2Fetch
    \/ Pass2Error
    \/ Pass2EndBatch
    \/ Finish

Spec == Init /\ [][Next]_vars

----------------------------------------------------------------------------
\* What the claims speak of.

\* The positions in the file of the rows of the repository at index n.
RowsOf(n) == {r \in 2..Len(csvfile) : csvfile[r][1] = all_repos[n].name}

\* The union of the keys of the pass-1 fetches that succeeded.
Discovered == UNION {pass1[k].keys : k \in {n \in 1..Len(pass1) : pass1[n].ok}}

\* The pass-1 fetch of the repository at index n failed.
FailedInPass1(n) == \E k \in 1..Len(pass1) : pass1[k].repo = n /\ ~pass1[k].ok

\* v hundredths is b / total * 100 to the nearest hundredth.
Nearest(v, b, total) ==
    /\ 2 * (v * total - b * 10000) <= total
    /\ 2 * (b * 10000 - v * total) <= total

RECURSIVE SumFrom(_, _)
SumFrom(row, k) == IF k > Len(row) THEN 0 ELSE row[k] + SumFrom(row, k + 1)

\* The sum of the percentage columns of a row.
PercentageSum(row) == SumFrom(row, FixedColumns + 1)

\* C1: the header has 9 + |vocabulary| columns and every row written has as
\* many fields, whatever the fetches of pass 1 and pass 2 did.
C1_ColumnCount ==
    opened =>
        /\ Len(csvfile) >= 1
        /\ \A r \in 1..Len(csvfile) :
              Len(csvfile[r]) = 9 + Cardinality(all_languages)

C1_Witness ==
    /\ pc = "done"
    /\ Len(csvfile) = 3
    /\ Cardinality(all_languages) = 3
    /\ \E k \in 1..Len(pass1) : ~pass1[k].ok
    /\ \E k \in 1..Len(pass2) : pass2[k].ok /\ Len(pass2[k].languages) = 1

\* C2: the language columns of the header are exactly the union of the keys
\* of the pass-1 fetches that succeeded; a failed pass-1 fetch does not end
\* pass 1 (every repository is fetched) and a key seen only in pass 2 is a
\* column of neither the header nor a row.
C2_Vocabulary ==
    pc \in {"pass2", "done"} =>
        /\ Len(pass1) = total_repos
        /\ {headers_csv[c] : c \in 10..Len(headers_csv)}
              = {l \o " (%)" : l \in Discovered}
        /\ Len(headers_csv) = 9 + Cardinality(Discovered)
        /\ \A r \in 2..Len(csvfile) : Len(csvfile[r]) = Len(headers_csv)

C2_Witness ==
    /\ pc = "done"
    /\ Len(pass1) = 2
    /\ ~pass1[1].ok
    /\ pass1[2].ok
    /\ pass1[2].keys = {"Go"}
    /\ pass2[1].ok
    /\ "HTML" \in Keys(pass2[1].languages)
    /\ Len(csvfile) = 3

\* C3: a repository whose pass-1 fetch failed and whose pass-2 fetch
\* succeeded has exactly one row; there each language of the vocabulary that
\* the pass-2 response has carries its share of the total bytes of that
\* response, each one it lacks carries 0, and there is no other column.
C3_RowAfterPass1Failure ==
    \A k \in 1..Len(pass2) :
        (pass2[k].ok /\ FailedInPass1(pass2[k].repo)) =>
            LET languages == pass2[k].languages
                total == SumValues(languages)
            IN  /\ Cardinality(RowsOf(pass2[k].repo)) = 1
                /\ \A r \in RowsOf(pass2[k].repo) :
                      /\ Len(csvfile[r]) = 9 + Len(sorted_languages)
                      /\ \A c \in 1..Len(sorted_languages) :
                            LET lang == sorted_languages[c]
                                cell == csvfile[r][9 + c]
                            IN  IF lang \in Keys(languages) /\ total > 0
                                THEN Nearest(cell, BytesOf(languages, lang), total)
                                ELSE cell = 0

C3_Witness ==
    /\ pc = "done"
    /\ sorted_languages = <<"Go">>
    /\ \E k \in 1..Len(pass2) :
          /\ pass2[k].ok
          /\ FailedInPass1(pass2[k].repo)
          /\ pass2[k].languages = <<Lang("Go", 800), Lang("HTML", 200)>>
          /\ \E r \in RowsOf(pass2[k].repo) : csvfile[r][10] = 8000

\* C4: a repository whose pass-2 fetch failed has no row, whatever its
\* pass-1 fetch did, and pass 2 goes on: at the end every repository has been
\* fetched in pass 2 and each one whose fetch succeeded has its row.
C4_NoRowAfterPass2Failure ==
    /\ \A k \in 1..Len(pass2) :
          ~pass2[k].ok => RowsOf(pass2[k].repo) = {}
    /\ pc = "done" =>
          /\ {pass2[k].repo : k \in 1..Len(pass2)} = 1..total_repos
          /\ \A k \in 1..Len(pass2) :
                pass2[k].ok => RowsOf(pass2[k].repo) # {}

C4_Witness ==
    /\ pc = "done"
    /\ total_repos = 2
    /\ ~pass2[1].ok
    /\ pass2[2].ok
    /\ ~FailedInPass1(1)
    /\ RowsOf(1) = {}
    /\ RowsOf(2) = {2}

\* The sum of a row's percentages is 0 or within the rounding tolerance of
\* 100: each language of the response is off by at most half a hundredth.
ZeroOrHundred(row, languages) ==
    \/ PercentageSum(row) = 0
    \/ /\ 2 * (PercentageSum(row) - 10000) <= Len(languages)
       /\ 2 * (10000 - PercentageSum(row)) <= Len(languages)

\* C5 as stated: in every row written the percentage columns sum to 0 or to
\* 100 within the rounding tolerance.
C5_Claim ==
    \A k \in 1..Len(pass2) :
        pass2[k].ok =>
            \A r \in RowsOf(pass2[k].repo) :
                ZeroOrHundred(csvfile[r], pass2[k].languages)

\* C5, amended: the percentage columns of a row sum to 0 or to 100 within the
\* rounding tolerance when every language of the pass-2 response is in the
\* vocabulary; a row that lost languages to the frozen vocabulary sums to
\* less, never to more than 100 plus the tolerance.
C5_SumOfRow ==
    \A k \in 1..Len(pass2) :
        pass2[k].ok =>
            \A r \in RowsOf(pass2[k].repo) :
                /\ Keys(pass2[k].languages) \subseteq all_languages
                      => ZeroOrHundred(csvfile[r], pass2[k].languages)
                /\ 2 * (PercentageSum(csvfile[r]) - 10000) <= Len(pass2[k].languages)
                /\ PercentageSum(csvfile[r]) >= 0

C5_Witness ==
    /\ pc = "done"
    /\ \E k \in 1..Len(pass2) :
          /\ pass2[k].ok
          /\ Len(pass2[k].languages) = 3
          /\ Keys(pass2[k].languages) \subseteq all_languages
          /\ \E r \in RowsOf(pass2[k].repo) : PercentageSum(csvfile[r]) = 9999
    /\ \E k \in 1..Len(pass2) :
          /\ pass2[k].ok
          /\ \E r \in RowsOf(pass2[k].repo) : PercentageSum(csvfile[r]) = 0

\* C6: the Primary Language field of a row is the language of the largest
\* byte count of the repository's pass-2 response, the first such in the
\* order of the response when several share it, and "None" when the response
\* has no language.
C6_PrimaryLanguage ==
    \A k \in 1..Len(pass2) :
        pass2[k].ok =>
            LET languages == pass2[k].languages
            IN  \A r \in RowsOf(pass2[k].repo) :
                    IF languages = <<>>
                    THEN csvfile[r][4] = "None"
                    ELSE \E m \in 1..Len(languages) :
                            /\ csvfile[r][4] = languages[m].lang
                            /\ \A n \in 1..Len(languages) :
                                  languages[n].bytes <= languages[m].bytes
                            /\ \A n \in 1..(m - 1) :
                                  languages[n].bytes < languages[m].bytes

C6_Witness ==
    /\ pc = "done"
    /\ Len(pass1) = 2
    /\ pass1[1].ok
    /\ pass1[1].keys = {"Go"}
    /\ pass2[1].ok
    /\ pass2[1].languages = <<Lang("HTML", 200), Lang("Go", 200)>>
    /\ \E r \in RowsOf(1) : csvfile[r][4] = "HTML"
    /\ pass2[2].ok
    /\ pass2[2].languages = <<>>
    /\ \E r \in RowsOf(2) : csvfile[r][4] = "None"

\* C7: with two repositories, A with {Go: 800, HTML: 200} and B with
\* {Go: 500}, and every fetch succeeding, the vocabulary is Go, HTML and the
\* file holds the header and two rows, A's then B's: A with Go 80.00,
\* HTML 20.00 and primary language Go, B with Go 100.00, HTML 0 and primary
\* language Go.
C7_Example ==
    ( /\ pc = "done"
      /\ total_repos = 2
      /\ Len(pass1) = 2
      /\ pass1[1] = [repo |-> 1, ok |-> TRUE, keys |-> {"Go", "HTML"}]
      /\ pass1[2] = [repo |-> 2, ok |-> TRUE, keys |-> {"Go"}]
      /\ Len(pass2) = 2
      /\ pass2[1] = [repo |-> 1, ok |-> TRUE,
                     languages |-> <<Lang("Go", 800), Lang("HTML", 200)>>]
      /\ pass2[2] = [repo |-> 2, ok |-> TRUE, languages |-> <<Lang("Go", 500)>>] )
    =>
    /\ all_languages = {"Go", "HTML"}
    /\ Len(csvfile) = 3
    /\ SubSeq(csvfile[1], 10, Len(csvfile[1])) = <<"Go (%)", "HTML (%)">>
    /\ csvfile[2][1] = "A"
    /\ csvfile[2][4] = "Go"
    /\ SubSeq(csvfile[2], 10, Len(csvfile[2])) = <<8000, 2000>>
    /\ csvfile[3][1] = "B"
    /\ csvfile[3][4] = "Go"
    /\ SubSeq(csvfile[3], 10, Len(csvfile[3])) = <<10000, 0>>

C7_Witness ==
    /\ pc = "done"
    /\ total_repos = 2
    /\ pass1 = << [repo |-> 1, ok |-> TRUE, keys |-> {"Go", "HTML"}],
                  [repo |-> 2, ok |-> TRUE, keys |-> {"Go"}] >>
    /\ pass2 = << [repo |-> 1, ok |-> TRUE,
                   languages |-> <<Lang("Go", 800), Lang("HTML", 200)>>],
                  [repo |-> 2, ok |-> TRUE, languages |-> <<Lang("Go", 500)>>] >>
    /\ Len(csvfile) = 3

----------------------------------------------------------------------------
\* The outcome of a call is a 403, a 404.
Is403(o) == o.kind = "http_error" /\ o.status = 403
Is404(o) == o.kind = "http_error" /\ o.status = 404

\* A step of the listing loop whose request is answered with 403 and a reset
\* time in the future.
RateLimitedStep ==
    /\ pc = "list"
    /\ Is403(outcome')
    /\ Get(outcome'.reset, 0) > outcome'.now

\* What follows a 403 of the listing: the same request again, and its page
\* collected if it succeeds.
Reissued ==
    (pc = "list" /\ Is403(outcome)) =>
        /\ request' = request
        /\ (outcome'.kind = "ok" /\ outcome'.body # <<>>) =>
              /\ Len(all_repos') = Len(all_repos) + Len(outcome'.body)
              /\ \A k \in 1..Len(outcome'.body) :
                    all_repos'[Len(all_repos) + k].name = outcome'.body[k].name
              /\ page' = page + 1

\* C8 as stated: a 403 of the listing with a reset time in the future is
\* followed by exactly one sleep, of reset - now + 1 seconds, page and
\* repositories as they were, and then by the same request again, whose page
\* is collected when it succeeds.
C8_Claim ==
    [][ /\ RateLimitedStep =>
            /\ slept' = <<1000 * (Get(outcome'.reset, 0) - outcome'.now + 1)>>
            /\ page' = page
            /\ all_repos' = all_repos
            /\ pc' = "list"
        /\ Reissued ]_vars

\* C8, amended: the one sleep lasts reset - now + 1 seconds or 60 seconds,
\* whichever is longer.
C8_RateLimitedListing ==
    [][ /\ RateLimitedStep =>
            /\ Len(slept') = 1
            /\ slept'[1] >= 1000 * (Get(outcome'.reset, 0) - outcome'.now + 1)
            /\ slept'[1] >= 60000
            /\ \/ slept'[1] = 1000 * (Get(outcome'.reset, 0) - outcome'.now + 1)
               \/ slept'[1] = 60000
            /\ page' = page
            /\ all_repos' = all_repos
            /\ pc' = "list"
        /\ Reissued ]_vars

C8_Witness ==
    /\ pc = "list"
    /\ Is403(outcome)
    /\ outcome.reset = <<1100>>
    /\ outcome.now = 1000
    /\ slept = <<101000>>
    /\ page = 2
    /\ request.page = 2
    /\ Len(all_repos) = 1

\* A step of pass 1 or pass 2 that fetches the languages of a repository.
LangFetchStep == pass1' # pass1 \/ pass2' # pass2

\* C9 as stated: a language fetch answered with 403 and no quota left is
\* followed by a sleep until the reset time plus 1 second, of 10 seconds at
\* least, and the loop stays at the repository, whose fetch is tried again.
C9_Claim ==
    [][ ( /\ LangFetchStep
          /\ Is403(outcome')
          /\ outcome'.remaining = <<"0">> ) =>
            /\ Len(slept') = 1
            /\ slept'[1] >= 10000
            /\ i' = i
            /\ j' = j ]_vars

\* C10: a 404 of the listing ends the run at once, on any page: the function
\* has returned, no step follows (no retry, no language fetch), and the file
\* has been neither opened nor written.
C10_NotFound ==
    /\ [][ (pc = "list" /\ Is404(outcome')) => pc' = "aborted" ]_vars
    /\ [][ ~(pc = "aborted" /\ Is404(outcome)) ]_vars
    /\ []((request.url = "repos" /\ Is404(outcome)) =>
            /\ pc = "aborted"
            /\ ~opened
            /\ csvfile = <<>>
            /\ pass1 = <<>>
            /\ pass2 = <<>>)

C10_Witness ==
    /\ pc = "aborted"
    /\ Is404(outcome)
    /\ Len(all_repos) = 2
    /\ request.page = 3
    /\ ~opened

----------------------------------------------------------------------------
\* The outcome of a call is an error whose message tells of memory.
IsMemory(o) == o.kind = "error" /\ o.memory

\* The outcome of a call is an error of the transport, of any kind.
IsError(o) == o.kind \in {"error", "http_error"}

\* C11 as stated: a listing request that ends in an error other than a 404,
\* a 403 with X-RateLimit-Remaining 0 and a memory error ends the run with no
\* report and is not tried again; so does a 403 whose remaining quota is not
\* 0 or is absent.
C11_Claim ==
    [][ ( /\ pc = "list"
          /\ IsError(outcome')
          /\ ~Is404(outcome')
          /\ ~(Is403(outcome') /\ outcome'.remaining = <<"0">>)
          /\ ~IsMemory(outcome') ) =>
            /\ pc' = "aborted"
            /\ ~opened'
            /\ slept' = <<>> ]_vars

----------------------------------------------------------------------------
\* What may be on the disk when the run is stopped: the lines that flush()
\* or close() has pushed out, and as many of the later ones as the file's
\* buffer has passed on by itself.
Durable == {SubSeq(csvfile, 1, n) : n \in flushed..Len(csvfile)}

\* s is a prefix of t.
IsPrefix(s, t) == Len(s) <= Len(t) /\ SubSeq(t, 1, Len(s)) = s

\* The number of pass-2 fetches so far that succeeded.
Succeeded == Cardinality({k \in 1..Len(pass2) : pass2[k].ok})

\* A step that ends a batch of pass 2.
EndOfBatch2 == pc = "pass2" /\ pc' = "pass2" /\ i' # i

\* Every row is handed to the writer by the step that fetched it, and what
\* has been written stays as it is; the end of a batch flushes all of it.
Streamed ==
    /\ [](opened => /\ flushed <= Len(csvfile)
                    /\ Len(csvfile) = 1 + Succeeded
                    /\ csvfile[1] = headers_csv)
    /\ [][ /\ IsPrefix(csvfile, csvfile')
           /\ flushed' >= flushed
           /\ (pass2' # pass2 /\ outcome'.kind = "ok") =>
                 /\ Len(csvfile') = Len(csvfile) + 1
                 /\ csvfile'[Len(csvfile')][1] = all_repos[i + j + 1].name
           /\ EndOfBatch2 => flushed' = Len(csvfile') ]_vars
    /\ [](pc = "done" => flushed = Len(csvfile))

\* C12 as stated: whenever the file is open, what is on the disk is the
\* header followed by a prefix of the rows; every row is handed to the writer
\* right after its fetch and the end of a batch flushes all rows so far.
C12_Claim ==
    /\ [](opened => \A d \in Durable : Len(d) >= 1 /\ d[1] = headers_csv)
    /\ Streamed

\* C12, amended: what is on the disk is a prefix of the header followed by
\* the rows, which may be empty: the header is written when the file is
\* opened but flushed only at the end of the first batch (or when the file is
\* closed).  Every row is handed to the writer right after its fetch and the
\* end of a batch flushes everything written so far.
C12_Durable ==
    /\ [](opened => \A d \in Durable : IsPrefix(d, csvfile))
    /\ [](opened /\ flushed >= 1 =>
            \A d \in Durable : Len(d) >= 1 /\ d[1] = headers_csv)
    /\ Streamed

C12_Witness ==
    /\ pc = "pass2"
    /\ batch_size = 1
    /\ i = 1
    /\ j = 1
    /\ flushed = 2
    /\ Len(csvfile) = 3
    /\ Cardinality(Durable) = 2

----------------------------------------------------------------------------
\* The function is one sequential flow: as long as a step is possible, one is
\* taken.  (That a listing request is not answered with 403 or a memory
\* error for ever, and that a page comes back empty in the end, is what
\* MaxRetries and MaxRepos say.)
FairSpec == Spec /\ WF_vars(Next)

\* What is left of the current batch and of the batches after it: it drops
\* with every fetch and with every end of a batch.
LeftOfPass == 2 * (total_repos - (i + j)) + (IF j > 0 THEN 1 ELSE 0)

\* What is left of pass 1 and pass 2 together.
Left ==
    CASE pc = "pass1" -> 4 * (total_repos + batch_size) + 2 + LeftOfPass
      [] pc = "pass2" -> 2 * (total_repos + batch_size) + 1 + LeftOfPass
      [] OTHER        -> 0

\* A step of pass 1 or pass 2 leaves less to do.
Progress ==
    pc \in {"pass1", "pass2"} =>
        /\ Left' < Left
        /\ Left' >= 0

----------------------------------------------------------------------------
\* The request of an iteration is a listing request.
IsListing(req) == "page" \in DOMAIN req

\* The names of the first n repositories of the organization, in the order
\* of the platform.
FirstNames(n) == [k \in 1..n |-> RepoNames[k]]

\* The names of the repositories of a sequence of records.
Names(repos) == [k \in 1..Len(repos) |-> repos[k].name]

\* One iteration of the listing loop, by what its request is answered with.
ListingStep ==
    pc = "list" =>
        /\ request'.page = page
        /\ request'.per_page = 30
        /\ IF outcome'.kind = "ok" /\ outcome'.body # <<>>
           THEN /\ page' = page + 1
                /\ Names(all_repos') = Names(all_repos) \o Names(outcome'.body)
                /\ pc' = "list"
           ELSE /\ page' = page
                /\ all_repos' = all_repos
                /\ (outcome'.kind = "ok") => pc' = "pass1"
                /\ (Is403(outcome') \/ IsMemory(outcome')) => pc' = "list"

\* C14: the listing starts at page 1 with 30 per page; the page advances by
\* one with every non-empty page received and with nothing else, and the
\* collected list is then the pages received so far, one after the other in
\* the order of the platform; a retry after a 403 or a memory error leaves
\* page and list alone and asks for the same page; the first empty page ends
\* the listing, after which page and list stay as they are.
C14_Listing ==
    /\ (page = 1 /\ all_repos = <<>>)
    /\ [][ListingStep]_vars
    /\ [][ pc # "list" => (page' = page /\ all_repos' = all_repos) ]_vars
    /\ [](/\ page >= 1
          /\ page - 1 <= Len(all_repos)
          /\ Names(all_repos) = FirstNames(Len(all_repos)))

C14_Witness ==
    /\ pc = "pass1"
    /\ page = 3
    /\ Len(all_repos) = 2
    /\ IsListing(request)
    /\ request.page = 3
    /\ outcome.kind = "ok"
    /\ outcome.body = <<>>

----------------------------------------------------------------------------
\* C15: a non-empty listing page is followed by one wait before the next
\* request: when its X-RateLimit-Remaining reads 0, of reset - now + 1
\* seconds and of 10 seconds at least (10 seconds when the reset header is
\* missing), otherwise of 1 second; a language fetch that succeeds is
\* followed by a wait of 0.5 seconds.
C15_Waits ==
    /\ (IsListing(request) /\ outcome.kind = "ok" /\ outcome.body # <<>>) =>
          /\ Len(slept) = 1
          /\ IF outcome.remaining = <<"0">>
             THEN LET until == IF outcome.reset = Absent
                               THEN 0 - outcome.now + 1
                               ELSE outcome.reset[1] - outcome.now + 1
                  IN  /\ slept[1] >= 10000
                      /\ slept[1] >= 1000 * until
                      /\ slept[1] = 10000 \/ slept[1] = 1000 * until
                      /\ outcome.reset = Absent => slept[1] = 10000
             ELSE slept[1] = 1000
    /\ ("timeout" \in DOMAIN request /\ ~IsListing(request) /\ outcome.kind = "ok") =>
          slept = <<500>>

C15_Witness ==
    /\ pc = "list"
    /\ IsListing(request)
    /\ outcome.kind = "ok"
    /\ outcome.body # <<>>
    /\ outcome.remaining = <<"0">>
    /\ outcome.reset = <<1100>>
    /\ slept = <<101000>>

----------------------------------------------------------------------------
\* The phases of a run, in their order.
Phase ==
    CASE pc = "list"  -> 1
      [] pc = "pass1" -> 2
      [] pc = "pass2" -> 3
      [] OTHER        -> 4

\* What a step may change, by the phase it starts in.
PhaseStep ==
    /\ Phase' >= Phase
    /\ all_languages \subseteq all_languages'
    /\ (all_languages' # all_languages) => (pc = "pass1" /\ pass1' # pass1)
    /\ (pass1' # pass1) => (pc = "pass1" /\ pc' = "pass1")
    /\ (pass2' # pass2) => (pc = "pass2" /\ pc' = "pass2")
    /\ (all_repos' # all_repos) => pc = "list"
    /\ (~opened /\ opened') =>
          /\ pc = "pass1"
          /\ pc' = "pass2"
          /\ Len(pass1) = total_repos
          /\ csvfile' = <<headers_csv'>>
    /\ opened =>
          /\ opened'
          /\ all_languages' = all_languages
          /\ sorted_languages' = sorted_languages
          /\ headers_csv' = headers_csv
          /\ IsPrefix(csvfile, csvfile')

\* C16: the listing ends, then come all pass-1 fetches, then the vocabulary
\* is sorted and the header written, once and as the first line, then the
\* pass-2 fetches and the rows.  No pass-2 fetch and no row comes before the
\* last pass-1 fetch, the vocabulary grows in pass 1 only, and vocabulary and
\* header stay as they are once the header is written.
C16_Phases ==
    /\ [][PhaseStep]_vars
    /\ [](/\ (pass1 # <<>>) => pc # "list"
          /\ (pass2 # <<>> \/ csvfile # <<>>) =>
                /\ opened
                /\ pc \in {"pass2", "done"}
                /\ Len(pass1) = total_repos
          /\ opened <=> pc \in {"pass2", "done"}
          /\ opened =>
                /\ csvfile[1] = headers_csv
                /\ \A r \in 2..Len(csvfile) : csvfile[r] # headers_csv
          /\ ~opened => (sorted_languages = <<>> /\ headers_csv = <<>>))

C16_Witness ==
    /\ pc = "done"
    /\ Len(pass1) = 2
    /\ Len(pass2) = 2
    /\ Len(csvfile) = 3
    /\ Cardinality(all_languages) = 2
    /\ \E k \in 1..2 : pass2[k].ok /\ ~(Keys(pass2[k].languages) \subseteq all_languages)

----------------------------------------------------------------------------
\* The language names in ascending order.
Alphabet == <<"C", "Go", "HTML">>

\* The place of a language name in that order.
Rank(l) == CHOOSE n \in 1..Len(Alphabet) : Alphabet[n] = l

\* C17: the language columns of the header are the vocabulary in ascending
\* order, each the name followed by " (%)", and in every row the value at
\* language column k is the share, in the repository's pass-2 response, of
\* the k-th language of that order, 0 when the response lacks it.
C17_Columns ==
    opened =>
        /\ {sorted_languages[k] : k \in 1..Len(sorted_languages)} = all_languages
        /\ \A k \in 1..(Len(sorted_languages) - 1) :
              Rank(sorted_languages[k]) < Rank(sorted_languages[k + 1])
        /\ Len(headers_csv) = 9 + Len(sorted_languages)
        /\ \A k \in 1..Len(sorted_languages) :
              headers_csv[9 + k] = sorted_languages[k] \o " (%)"
        /\ \A n \in 1..Len(pass2) :
              pass2[n].ok =>
                  LET languages == pass2[n].languages
                      total == SumValues(languages)
                  IN  \A r \in RowsOf(pass2[n].repo) :
                          /\ Len(csvfile[r]) = Len(headers_csv)
                          /\ \A k \in 1..Len(sorted_languages) :
                                LET lang == sorted_languages[k]
                                    cell == csvfile[r][9 + k]
                                IN  IF lang \in Keys(languages) /\ total > 0
                                    THEN Nearest(cell, BytesOf(languages, lang), total)
                                    ELSE cell = 0

C17_Witness ==
    /\ pc = "done"
    /\ sorted_languages = <<"C", "Go", "HTML">>
    /\ \E n \in 1..Len(pass2) :
          /\ pass2[n].ok
          /\ pass2[n].languages = <<Lang("Go", 800), Lang("HTML", 200)>>
          /\ \E r \in RowsOf(pass2[n].repo) :
                SubSeq(csvfile[r], 10, 12) = <<0, 8000, 2000>>

----------------------------------------------------------------------------
\* The pass-2 fetch n brought languages whose byte counts sum to 0.
ZeroBytes(n) ==
    /\ pass2[n].ok
    /\ pass2[n].languages # <<>>
    /\ SumValues(pass2[n].languages) = 0

\* The percentage columns of the row at r are all 0.
AllZero(r) == \A c \in 10..Len(csvfile[r]) : csvfile[r][c] = 0

\* C18 as stated: a repository whose pass-2 response has languages with
\* byte counts that sum to 0 has 0 in every percentage column and "None" as
\* its primary language.
C18_Claim ==
    \A n \in 1..Len(pass2) :
        ZeroBytes(n) =>
            \A r \in RowsOf(pass2[n].repo) :
                AllZero(r) /\ csvfile[r][4] = "None"

\* C18, amended: such a repository has 0 in every percentage column, and as
\* its primary language the first language of the response.
C18_ZeroBytes ==
    \A n \in 1..Len(pass2) :
        ZeroBytes(n) =>
            /\ RowsOf(pass2[n].repo) # {}
            /\ \A r \in RowsOf(pass2[n].repo) :
                  AllZero(r) /\ csvfile[r][4] = pass2[n].languages[1].lang

C18_Witness ==
    /\ pc = "done"
    /\ Len(csvfile[1]) = 12
    /\ \E n \in 1..Len(pass2) :
          /\ ZeroBytes(n)
          /\ \E r \in RowsOf(pass2[n].repo) : csvfile[r][4] = "HTML"

----------------------------------------------------------------------------
\* One step, when its request ends in a memory error.
MemoryStep ==
    /\ (pc = "list" /\ IsMemory(outcome')) =>
          /\ slept' = <<60000>>
          /\ page' = page
          /\ all_repos' = all_repos
          /\ pc' = "list"
    /\ (pc = "list" /\ IsMemory(outcome)) =>
          /\ IsListing(request')
          /\ request' = request
    /\ (LangFetchStep /\ IsMemory(outcome')) =>
          /\ slept' = <<30000>>
          /\ pc' = pc
          /\ i' = i
          /\ j' = j + 1
          /\ all_languages' = all_languages
          /\ csvfile' = csvfile
          /\ Len(pass1') + Len(pass2') = Len(pass1) + Len(pass2) + 1

----------------------------------------------------------------------------
\* The index in all_repos of the repository of the row at r.
IndexOfRow(r) == CHOOSE n \in 1..total_repos : all_repos[n].name = csvfile[r][1]

\* The rows of the first n pass-2 fetches, told from the responses alone:
\* one row for each fetch that succeeded, in the order of the fetches.
RECURSIVE RowsOfFetches(_)
RowsOfFetches(n) ==
    IF n = 0 THEN <<>>
    ELSE IF pass2[n].ok
         THEN Append(RowsOfFetches(n - 1),
                     Row(all_repos[pass2[n].repo], pass2[n].languages,
                         Sorted(Discovered)))
         ELSE RowsOfFetches(n - 1)

\* C20: whatever the batch size, each repository is fetched once in pass 1
\* and once in pass 2, in the order of the listing; the rows are in that
\* order too, one per repository at most; and the file is the header and the
\* rows that the responses alone determine, the batch size deciding nothing
\* but where the file is flushed.
C20_BatchSize ==
    /\ batch_size >= 1
    /\ \A k \in 1..Len(pass1) : pass1[k].repo = k
    /\ \A k \in 1..Len(pass2) : pass2[k].repo = k
    /\ Len(pass1) <= total_repos
    /\ Len(pass2) <= total_repos
    /\ pc \in {"pass2", "done"} => Len(pass1) = total_repos
    /\ pc = "done" => Len(pass2) = total_repos
    /\ \A r \in 2..Len(csvfile) : \A q \in 2..(r - 1) :
          IndexOfRow(q) < IndexOfRow(r)
    /\ opened =>
          csvfile = <<HeadersCsv(Sorted(Discovered))>> \o RowsOfFetches(Len(pass2))
    /\ pc = "done" => flushed = Len(csvfile)

C20_Witness ==
    /\ pc = "done"
    /\ batch_size = 1
    /\ total_repos = 2
    /\ i = 2
    /\ Len(csvfile) = 3
    /\ Len(pass1) = 2
    /\ Len(pass2) = 2

====
